---- MODULE Spec2Model ----
(***************************************************************************)
(* Model of the data-access layer of saypi (say/repository.go): the mood,  *)
(* conversation and line tables, the two-source mood paginator, the        *)
(* identifier-generation retry loops and the conflict-aware delete.        *)
(*                                                                         *)
(* Strings whose letter case or alphabetical order matters (mood names,    *)
(* public identifiers) are sequences of one-character strings, so that     *)
(* lower(), strings.EqualFold and strconv.FormatUint are computed and not  *)
(* assumed.                                                                *)
(***************************************************************************)
EXTENDS Integers, Sequences, FiniteSets, TLC

VARIABLES
    moods,      \* table moods: rows [id, user_id, name, eyes, tongue]
    moodSeq,    \* last value handed out by the moods.id sequence
    convos,     \* table conversations: rows [id, public_id, user_id, heading]
    convoSeq,   \* last value handed out by the conversations.id sequence
    lines,      \* table lines: rows [id, public_id, mood_name, mood_id, conversation_id]
                \* (mood_id is a nullable integer)
    lineSeq,    \* last value handed out by the lines.id sequence
    convoFK,    \* what lines.conversation_id does on delete: "cascade" or "restrict"
    moodLog,    \* every row ever inserted into moods, as it was inserted
                \* (what GetMood may have returned)
    calls,      \* per thread: the NewConversation / InsertLine call in progress
    last        \* the operation that completed last, with its arguments and result

vars == <<moods, moodSeq, moodLog, convos, convoSeq, lines, lineSeq, convoFK, calls, last>>

-----------------------------------------------------------------------------
(* Bounds of the model *)

MaxMoodId == 2
MaxLimit == 11

Users == {"u1", "u2"}

-----------------------------------------------------------------------------
(* Strings *)

Lowers == <<"a","b","c","d","e","f","g","h","i","j","k","l","m",
            "n","o","p","q","r","s","t","u","v","w","x","y","z">>
Uppers == <<"A","B","C","D","E","F","G","H","I","J","K","L","M",
            "N","O","P","Q","R","S","T","U","V","W","X","Y","Z">>

Letters == {Lowers[i] : i \in DOMAIN Lowers} \cup {Uppers[i] : i \in DOMAIN Uppers}

\* the lower-case letter of every letter
ToLowerMap ==
    [c \in Letters |->
        IF \E i \in DOMAIN Uppers : Uppers[i] = c
        THEN Lowers[CHOOSE i \in DOMAIN Uppers : Uppers[i] = c]
        ELSE c]

ToLowerChar(c) == IF c \in Letters THEN ToLowerMap[c] ELSE c

\* SQL lower(): every upper-case letter replaced by its lower-case letter
Lower(s) == [i \in 1..Len(s) |-> ToLowerChar(s[i])]

\* strings.EqualFold on ASCII names
EqualFold(s, t) == Lower(s) = Lower(t)

\* position of a letter in the collating order of lower-case letters
RankMap ==
    [c \in Letters |-> CHOOSE i \in DOMAIN Lowers : Lowers[i] = ToLowerMap[c]]

Rank(c) == IF c \in Letters THEN RankMap[c] ELSE 0

RECURSIVE AlphaLeq(_, _)
\* s sorts at or before t alphabetically, ignoring case
AlphaLeq(s, t) ==
    IF s = <<>> THEN TRUE
    ELSE IF t = <<>> THEN FALSE
    ELSE IF Rank(Head(s)) < Rank(Head(t)) THEN TRUE
    ELSE IF Rank(Head(s)) > Rank(Head(t)) THEN FALSE
    ELSE AlphaLeq(Tail(s), Tail(t))

RECURSIVE Reverse(_)
Reverse(s) == IF s = <<>> THEN <<>> ELSE Reverse(Tail(s)) \o <<Head(s)>>

Min(a, b) == IF a < b THEN a ELSE b

NoName == <<>>

happy  == <<"h","a","p","p","y">>
Happy  == <<"H","a","p","p","y">>
sleepy == <<"s","l","e","e","p","y">>
ghost  == <<"g","h","o","s","t">>
Dead   == <<"D","e","a","d">>

-----------------------------------------------------------------------------
(* Values *)

NilErr            == "nil"
errCursorNotFound == "Invalid cursor"
errBuiltinMood    == "Cannot modify built-in moods"
errRecordNotFound == "Requested record was not found"
errConflict       == "conflictErr"
errWrapped        == "wrapped store error"

dbErrDupUnique   == "23505"
dbErrFKViolation == "23503"
dbOK             == "00000"
dbErrOther       == "08006"

MkMood(name, eyes, tongue, userDefined, id) ==
    [Name |-> name, Eyes |-> eyes, Tongue |-> tongue, UserDefined |-> userDefined, id |-> id]

builtinMoods == <<
    MkMood(<<"d","e","f","a","u","l","t">>, "oo", "  ", FALSE, 0),
    MkMood(<<"b","o","r","g">>,             "==", "  ", FALSE, 0),
    MkMood(<<"d","e","a","d">>,             "xx", "U ", FALSE, 0),
    MkMood(<<"g","r","e","e","d","y">>,     "$$", "  ", FALSE, 0),
    MkMood(<<"s","t","o","n","e","d">>,     "**", "U ", FALSE, 0),
    MkMood(<<"t","i","r","e","d">>,         "--", "  ", FALSE, 0),
    MkMood(<<"w","i","r","e","d">>,         "OO", "  ", FALSE, 0),
    MkMood(<<"y","o","u","n","g">>,         "..", "  ", FALSE, 0) >>

BuiltinNames == {builtinMoods[i].Name : i \in DOMAIN builtinMoods}

\* a comparison that tells letter cases apart
isBuiltinExact(name) == \E i \in DOMAIN builtinMoods : builtinMoods[i].Name = name

isBuiltin(name) == \E i \in DOMAIN builtinMoods : EqualFold(builtinMoods[i].Name, name)

sortAsc(args) == args.After # NoName \/ args.Before = NoName

ListArgs(after, before, limit) == [After |-> after, Before |-> before, Limit |-> limit]

-----------------------------------------------------------------------------
(* Statements on the moods table *)

\* findMood: the rows of one user whose name matches ignoring case
findMood(userID, name) ==
    {r \in moods : r.user_id = userID /\ Lower(r.name) = Lower(name)}

RECURSIVE OrderById(_, _)
\* ORDER BY id ASC / DESC
OrderById(rows, asc) ==
    IF rows = {} THEN <<>>
    ELSE LET first == CHOOSE r \in rows :
                          \A q \in rows : IF asc THEN r.id <= q.id ELSE r.id >= q.id
         IN  <<first>> \o OrderById(rows \ {first}, asc)

SqlLimit(rows, n) == SubSeq(rows, 1, Min(n, Len(rows)))

\* the statement with the cursor row inside the boundary
listMoodsQueryInclusive(userID, cursorID, limit, asc) ==
    LET matching == {r \in moods :
                        /\ r.user_id = userID
                        /\ \/ cursorID < 0
                           \/ IF asc THEN r.id >= cursorID ELSE r.id <= cursorID}
    IN  SqlLimit(OrderById(matching, asc), limit + 1)

\* the statement with the order of the rows turned around
listMoodsQueryReversed(userID, cursorID, limit, asc) ==
    LET matching == {r \in moods :
                        /\ r.user_id = userID
                        /\ \/ cursorID < 0
                           \/ IF asc THEN r.id > cursorID ELSE r.id < cursorID}
    IN  SqlLimit(OrderById(matching, ~asc), limit + 1)

\* listMoods, prepared once with (">", "ASC") and once with ("<", "DESC")
listMoodsQuery(userID, cursorID, limit, asc) ==
    LET matching == {r \in moods :
                        /\ r.user_id = userID
                        /\ \/ cursorID < 0
                           \/ IF asc THEN r.id > cursorID ELSE r.id < cursorID}
    IN  SqlLimit(OrderById(matching, asc), limit + 1)

ScanMood(r) == MkMood(r.name, r.eyes, r.tongue, TRUE, r.id)

ListResult(ms, hasMore, err) == [moods |-> ms, hasMore |-> hasMore, err |-> err]

listUserMoods(userID, asc, args) ==
    LET cursor == IF asc THEN args.After ELSE args.Before
        found  == findMood(userID, cursor)
    IN  IF cursor # NoName /\ found = {}
        THEN ListResult(<<>>, FALSE, errCursorNotFound)
        ELSE LET cursorID == IF cursor = NoName THEN -1
                             ELSE (CHOOSE r \in found : TRUE).id
                 rows     == listMoodsQuery(userID, cursorID, args.Limit + 1, asc)
                 scanned  == [i \in 1..Len(rows) |-> ScanMood(rows[i])]
                 hasMore  == Len(scanned) > args.Limit
             IN  ListResult(IF hasMore THEN SubSeq(scanned, 1, args.Limit) ELSE scanned,
                            hasMore, NilErr)

\* a scan that ignores the direction
BuiltinAtForward(i, asc) == builtinMoods[i + 1]

\* the catalog mood the i-th iteration of the scan looks at
BuiltinAt(i, asc) ==
    IF asc THEN builtinMoods[i + 1] ELSE builtinMoods[Len(builtinMoods) - i]

RECURSIVE BuiltinScan(_, _, _, _, _, _)
\* the loop of listBuiltinMoods: returns <<found, moods>>
BuiltinScan(i, found, ms, asc, cursor, limit) ==
    IF i >= Len(builtinMoods) THEN <<found, ms>>
    ELSE LET mood == BuiltinAt(i, asc)
         IN  IF found
             THEN IF Len(ms) + 1 = limit
                  THEN <<found, Append(ms, mood)>>
                  ELSE BuiltinScan(i + 1, found, Append(ms, mood), asc, cursor, limit)
             ELSE BuiltinScan(i + 1, mood.Name = cursor, ms, asc, cursor, limit)

listBuiltinMoods(asc, args) ==
    LET cursor == IF asc THEN args.After ELSE args.Before
        limit  == args.Limit + 1
        found0 == args.After = NoName /\ args.Before = NoName
        scan   == BuiltinScan(0, found0, <<>>, asc, cursor, limit)
        ms     == scan[2]
        hasMore == Len(ms) > args.Limit
    IN  IF ~scan[1]
        THEN ListResult(<<>>, FALSE, errCursorNotFound)
        ELSE ListResult(IF hasMore THEN SubSeq(ms, 1, args.Limit) ELSE ms, hasMore, NilErr)

\* the cursors cleared whatever the first source answered
SecondArgsCleared(first, args) ==
    ListArgs(NoName, NoName, args.Limit - Len(first.moods))

\* the arguments handed to the second source: the limit lowered and both
\* cursors cleared after a first source that answered, the arguments as they
\* came after a first source that did not find the cursor
SecondArgs(first, args) ==
    IF first.err = NilErr
    THEN ListArgs(NoName, NoName, args.Limit - Len(first.moods))
    ELSE args

\* the test that ends ListMoods after the first source
FirstSourceFull(firstMoods, args) == Len(firstMoods) = args.Limit

ListMoods(userID, args) ==
    LET asc    == sortAsc(args)
        first  == IF asc THEN listUserMoods(userID, asc, args)
                  ELSE listBuiltinMoods(asc, args)
        args2  == SecondArgs(first, args)
        second == IF asc THEN listBuiltinMoods(asc, args2)
                  ELSE listUserMoods(userID, asc, args2)
    IN  IF first.err = NilErr /\ FirstSourceFull(first.moods, args2)
        THEN ListResult(first.moods, TRUE, NilErr)
        ELSE IF second.err # NilErr
        THEN ListResult(<<>>, FALSE, second.err)
        ELSE ListResult(first.moods \o second.moods, second.hasMore, NilErr)

-----------------------------------------------------------------------------
(* Reads and writes of moods *)

NilMood == [nil |-> TRUE]

RECURSIVE BuiltinNamed(_, _)
\* the loop of GetMood over builtinMoods: exact comparison of the name
BuiltinNamed(i, name) ==
    IF i > Len(builtinMoods) THEN NilMood
    ELSE IF builtinMoods[i].Name = name THEN builtinMoods[i]
    ELSE BuiltinNamed(i + 1, name)

GetMood(userID, name) ==
    LET builtin == BuiltinNamed(1, name)
        found   == findMood(userID, name)
    IN  IF builtin # NilMood THEN builtin
        ELSE IF found = {} THEN NilMood
        ELSE ScanMood(CHOOSE r \in found : TRUE)

\* a name stored as it was given
StoredNameVerbatim(name) == name

\* the name setMood stores in a new row
StoredName(name) == Lower(name)

\* an upsert that replaces the matching rows by a new row
setMoodStmtReplace(userID, m) ==
    [rows |-> (moods \ findMood(userID, m.Name)) \cup
              {[id |-> moodSeq + 1, user_id |-> userID, name |-> StoredName(m.Name),
                eyes |-> m.Eyes, tongue |-> m.Tongue]},
     seq  |-> moodSeq + 1,
     id   |-> moodSeq + 1]

\* setMood: update the matching rows, or insert a row under the lower-cased
\* name when none matched; yields the new table, the sequence and the id
setMoodStmt(userID, m) ==
    LET hit == findMood(userID, m.Name)
    IN  IF hit # {}
        THEN [rows |-> (moods \ hit) \cup
                       {[r EXCEPT !.eyes = m.Eyes, !.tongue = m.Tongue] : r \in hit},
              seq  |-> moodSeq,
              id   |-> (CHOOSE r \in hit : TRUE).id]
        ELSE [rows |-> moods \cup {[id |-> moodSeq + 1, user_id |-> userID,
                                    name |-> StoredName(m.Name),
                                    eyes |-> m.Eyes, tongue |-> m.Tongue]},
              seq  |-> moodSeq + 1,
              id   |-> moodSeq + 1]

\* findMoodLines: public ids of the lines joined to a mood row of the user
\* whose stored mood_name equals the given name, by line id
RECURSIVE LineIdsInOrder(_)
LineIdsInOrder(ls) ==
    IF ls = {} THEN <<>>
    ELSE LET first == CHOOSE l \in ls : \A q \in ls : l.id <= q.id
         IN  <<first.public_id>> \o LineIdsInOrder(ls \ {first})

\* a lookup that lists every line
findMoodLinesAll(userID, name) == LineIdsInOrder(lines)

findMoodLines(userID, name) ==
    LineIdsInOrder({l \in lines :
        /\ \E r \in moods : /\ l.mood_id.Valid /\ r.id = l.mood_id.Int64
                            /\ r.user_id = userID
        /\ l.mood_name = name})

\* a delete that is not scoped by the owner
deleteMoodMatchAnyUser(userID, name) == {r \in moods : Lower(r.name) = Lower(name)}

\* deleteMood: the rows the statement matches
deleteMoodMatch(userID, name) == findMood(userID, name)

\* a line still references one of the rows (foreign key lines.mood_id)
MoodReferenced(rows) ==
    \E l \in lines : \E r \in rows : l.mood_id.Valid /\ l.mood_id.Int64 = r.id

\* a delete that reports success when it removed nothing
doDeleteSilent(code, cnt) == IF code # dbOK THEN code ELSE NilErr

\* doDelete: the error of the statement, else not-found when it affected no row
doDelete(code, cnt) ==
    IF code # dbOK THEN code
    ELSE IF cnt = 0 THEN errRecordNotFound
    ELSE NilErr

Ret(op, user, in, out) == [op |-> op, user |-> user, in |-> in, out |-> out]

StoreUnchanged ==
    UNCHANGED <<moods, moodSeq, moodLog, convos, convoSeq, lines, lineSeq, convoFK>>

SetMood(userID, m) ==
    /\ IF isBuiltin(m.Name)
       THEN /\ last' = Ret("SetMood", userID, m, [err |-> errBuiltinMood, id |-> 0])
            /\ UNCHANGED <<moods, moodSeq, moodLog>>
       ELSE LET res == setMoodStmt(userID, m)
            IN  /\ res.seq <= MaxMoodId
                /\ moods' = res.rows
                /\ moodSeq' = res.seq
                /\ moodLog' = moodLog \cup
                       {[id |-> r.id, user_id |-> r.user_id, name |-> r.name,
                         eyes |-> r.eyes] : r \in {q \in res.rows : q.id > moodSeq}}
                /\ last' = Ret("SetMood", userID, m, [err |-> NilErr, id |-> res.id])
    /\ UNCHANGED <<convos, convoSeq, lines, lineSeq, convoFK, calls>>

DeleteMood(userID, name) ==
    /\ IF isBuiltin(name)
       THEN /\ last' = Ret("DeleteMood", userID, [name |-> name],
                           [err |-> errBuiltinMood, ids |-> <<>>])
            /\ UNCHANGED moods
       ELSE LET match == deleteMoodMatch(userID, name)
            IN  IF MoodReferenced(match)
                THEN /\ last' = Ret("DeleteMood", userID, [name |-> name],
                                    [err |-> errConflict,
                                     ids |-> findMoodLines(userID, name)])
                     /\ UNCHANGED moods
                ELSE /\ moods' = moods \ match
                     /\ last' = Ret("DeleteMood", userID, [name |-> name],
                                    [err |-> doDelete(dbOK, Cardinality(match)),
                                     ids |-> <<>>])
    /\ UNCHANGED <<moodSeq, moodLog, convos, convoSeq, lines, lineSeq, convoFK, calls>>

CallGetMood(userID, name) ==
    /\ last' = Ret("GetMood", userID, [name |-> name],
                   [mood |-> GetMood(userID, name), err |-> NilErr])
    /\ StoreUnchanged
    /\ UNCHANGED calls

CallListMoods(userID, args) ==
    /\ last' = Ret("ListMoods", userID, args, ListMoods(userID, args))
    /\ StoreUnchanged
    /\ UNCHANGED calls

-----------------------------------------------------------------------------
(* A client paginating the mood list: forward to the end, then backward *)

RECURSIVE Walk(_, _, _, _, _, _)
\* pages of size limit, each starting at the last item of the page before,
\* appended to acc; ok is FALSE when a page fails or an empty page announces
\* more. Each page is one call of ListMoods, bound once to its result.
Walk(userID, limit, asc, cursor, fuel, acc) ==
    LET args == IF asc THEN ListArgs(cursor, NoName, limit)
                ELSE ListArgs(NoName, cursor, limit)
        Turn(page) ==
            IF page.err # NilErr THEN [items |-> acc, ok |-> FALSE]
            ELSE IF ~page.hasMore THEN [items |-> acc \o page.moods, ok |-> TRUE]
            ELSE IF page.moods = <<>> \/ fuel = 0
                 THEN [items |-> acc \o page.moods, ok |-> FALSE]
            ELSE Walk(userID, limit, asc, page.moods[Len(page.moods)].Name,
                      fuel - 1, acc \o page.moods)
    IN  CHOOSE r \in {Turn(page) : page \in {ListMoods(userID, args)}} : TRUE

WalkFuel == Len(builtinMoods) + Cardinality(moods) + 1

ForwardWalk(userID, limit) == Walk(userID, limit, TRUE, NoName, WalkFuel, <<>>)

\* the walk back starts at the last item the forward walk reached
BackwardWalk(userID, limit) ==
    LET From(fwd) ==
            IF fwd = <<>> THEN [items |-> <<>>, ok |-> FALSE]
            ELSE Walk(userID, limit, FALSE, fwd[Len(fwd)].Name, WalkFuel, <<>>)
    IN  CHOOSE r \in {From(w.items) : w \in {ForwardWalk(userID, limit)}} : TRUE

Paginate(userID, limit) ==
    /\ last' = Ret("Paginate", userID, [Limit |-> limit],
                   [fwd |-> ForwardWalk(userID, limit),
                    bwd |-> BackwardWalk(userID, limit)])
    /\ StoreUnchanged
    /\ UNCHANGED calls

-----------------------------------------------------------------------------
(* Inputs *)

MoodNameInputs == {happy, Happy, sleepy, Dead}
CursorNames    == BuiltinNames \cup {happy, Happy, sleepy, ghost}
ListLimits     == {0, 4, 5}
WalkLimits     == {1, 4}

Looks     == {[Eyes |-> "^^", Tongue |-> "  "], [Eyes |-> "@@", Tongue |-> "U "]}
ListLooks == {[Eyes |-> "^^", Tongue |-> "  "]}

MoodInputs(looks) ==
    {[Name |-> n, Eyes |-> l.Eyes, Tongue |-> l.Tongue] : n \in MoodNameInputs, l \in looks}

\* callers set at most one of the two cursors
CursorArgs(limits) ==
    {ListArgs(NoName, NoName, l) : l \in limits}
        \cup {ListArgs(c, NoName, l) : c \in CursorNames, l \in limits}
        \cup {ListArgs(NoName, c, l) : c \in CursorNames, l \in limits}

\* the requests the list action is called with
ListArgsInputs ==
    {ListArgs(NoName, NoName, l) : l \in ListLimits}
        \cup {ListArgs(c, NoName, 4) : c \in {Happy, builtinMoods[4].Name, ghost}}
        \cup {ListArgs(NoName, c, l) :
                  c \in {happy, builtinMoods[2].Name, builtinMoods[3].Name,
                         builtinMoods[8].Name},
                  l \in {4, 5}}

Threads == {"t1", "t2"}

IdleCall == [pc |-> "idle"]

Init ==
    /\ moods = {}
    /\ moodSeq = 0
    /\ moodLog = {}
    /\ convos = {}
    /\ convoSeq = 0
    /\ lines = {}
    /\ lineSeq = 0
    /\ convoFK \in {"cascade", "restrict"}
    /\ calls = [t \in Threads |-> IdleCall]
    /\ last = Ret("none", "", [none |-> TRUE], [err |-> NilErr])

-----------------------------------------------------------------------------
(* The mood list over a store of moods *)

NextList ==
    \/ \E u \in Users, m \in MoodInputs(ListLooks) : SetMood(u, m)
    \/ \E u \in Users, n \in MoodNameInputs : DeleteMood(u, n)
    \/ \E u \in Users, a \in ListArgsInputs : CallListMoods(u, a)
    \/ \E u \in Users, l \in WalkLimits : Paginate(u, l)
    \/ \E u \in Users, n \in MoodNameInputs : CallGetMood(u, n)

\* no conversation is created here: one setting of the foreign key is enough
InitList == Init /\ convoFK = "restrict"

SpecList == InitList /\ [][NextList]_vars

UserMoodsOf(u) == {r \in moods : r.user_id = u}
Total(u) == Cardinality(UserMoodsOf(u)) + Len(builtinMoods)

NoCursor(args) == args.After = NoName /\ args.Before = NoName

\* C1: with no cursor, ListMoods returns min(L, total) items and hasMore = (total > L)
C1_CountAndHasMore ==
    (last.op = "ListMoods" /\ NoCursor(last.in)) =>
        /\ last.out.err = NilErr
        /\ Len(last.out.moods) = Min(last.in.Limit, Total(last.user))
        /\ last.out.hasMore = (Total(last.user) > last.in.Limit)

\* the item of the catalog at a position of the declared order, 0 if none
BuiltinIndex(m) ==
    IF \E i \in DOMAIN builtinMoods : builtinMoods[i] = m
    THEN CHOOSE i \in DOMAIN builtinMoods : builtinMoods[i] = m
    ELSE 0

IsUserMoodOf(u, m) == m.UserDefined /\ \E r \in UserMoodsOf(u) : ScanMood(r) = m

\* the owner's moods as an ascending listing without cursor returns them
AscUserPart(u) ==
    SelectSeq(ListMoods(u, ListArgs(NoName, NoName, Total(u))).moods,
              LAMBDA m : m.UserDefined)

PosIn(seq, m) ==
    IF \E i \in DOMAIN seq : seq[i] = m
    THEN CHOOSE i \in DOMAIN seq : seq[i] = m
    ELSE 0

CountUser(ms) == Cardinality({i \in DOMAIN ms : ms[i].UserDefined})

\* user moods, then catalog moods in declared order
AscendingShape(u, ms) ==
    LET k == CountUser(ms)
    IN  /\ \A i \in 1..k : IsUserMoodOf(u, ms[i])
        /\ \A i \in (k + 1)..Len(ms) : ~ms[i].UserDefined /\ BuiltinIndex(ms[i]) > 0
        /\ \A i \in (k + 1)..(Len(ms) - 1) :
               BuiltinIndex(ms[i]) < BuiltinIndex(ms[i + 1])

\* catalog moods in reverse declared order, then user moods in the reverse of
\* their ascending order
DescendingShape(u, ms, ascending) ==
    LET k == Len(ms) - CountUser(ms)
    IN  /\ \A i \in 1..k : ~ms[i].UserDefined /\ BuiltinIndex(ms[i]) > 0
        /\ \A i \in 1..(k - 1) : BuiltinIndex(ms[i]) > BuiltinIndex(ms[i + 1])
        /\ \A i \in (k + 1)..Len(ms) :
               IsUserMoodOf(u, ms[i]) /\ PosIn(ascending, ms[i]) > 0
        /\ \A i \in (k + 1)..(Len(ms) - 1) :
               PosIn(ascending, ms[i]) > PosIn(ascending, ms[i + 1])

\* C2: an ascending listing without cursor puts every user mood before every
\* catalog mood, catalog moods in declared order; a descending listing puts
\* catalog moods first in reverse declared order, then the user moods in the
\* reverse of their ascending order
C2_PartitionOrder ==
    \A u \in Users :
        LET ascending == AscUserPart(u)
        IN  \A l \in 0..MaxLimit :
                /\ LET r == ListMoods(u, ListArgs(NoName, NoName, l))
                   IN  r.err = NilErr /\ AscendingShape(u, r.moods)
                /\ \A b \in CursorNames :
                       LET r == ListMoods(u, ListArgs(NoName, b, l))
                       IN  r.err = NilErr => DescendingShape(u, r.moods, ascending)

\* a descending page that holds catalog moods and two of the owner's moods
C2_Witness ==
    /\ last.op = "ListMoods"
    /\ last.in.After = NoName /\ last.in.Before # NoName
    /\ last.out.err = NilErr
    /\ Len(last.out.moods) >= 4
    /\ ~last.out.moods[1].UserDefined
    /\ last.out.moods[Len(last.out.moods) - 1].UserDefined
    /\ last.out.moods[Len(last.out.moods)].UserDefined

UserPart(ms) == SelectSeq(ms, LAMBDA m : m.UserDefined)

\* C3 as stated: the user moods of an ascending listing without cursor are in
\* alphabetical, case-insensitive order of their names
C3_Alphabetical ==
    \A u \in Users, l \in 0..MaxLimit :
        LET ms == UserPart(ListMoods(u, ListArgs(NoName, NoName, l)).moods)
        IN  \A i, j \in DOMAIN ms : i < j => AlphaLeq(ms[i].Name, ms[j].Name)

\* C3 amended: the user moods of an ascending listing without cursor are in
\* ascending order of their sequence id, the order of their creation, whatever
\* their names
C3_CreationOrder ==
    \A u \in Users, l \in 0..MaxLimit :
        LET ms == UserPart(ListMoods(u, ListArgs(NoName, NoName, l)).moods)
        IN  /\ \A i, j \in DOMAIN ms : i < j => ms[i].id < ms[j].id
            /\ \A i \in DOMAIN ms : IsUserMoodOf(u, ms[i])
            /\ Len(ms) = Min(l, Cardinality(UserMoodsOf(u)))

\* an ascending page without cursor whose user moods are not in alphabetical order
C3_Witness ==
    /\ last.op = "ListMoods" /\ NoCursor(last.in)
    /\ Len(last.out.moods) >= 2
    /\ last.out.moods[1].UserDefined /\ last.out.moods[2].UserDefined
    /\ ~AlphaLeq(last.out.moods[1].Name, last.out.moods[2].Name)

Front(s) == SubSeq(s, 1, Len(s) - 1)

\* C4: paginating forward to the end and then backward from the last item
\* yields the forward sequence without its last item, reversed
C4_ForwardBackward ==
    last.op = "Paginate" =>
        /\ last.out.fwd.ok
        /\ last.out.bwd.ok
        /\ last.out.bwd.items = Reverse(Front(last.out.fwd.items))

\* the merged sequence in the direction of traversal
Merged(u, asc) ==
    LET users == OrderById(UserMoodsOf(u), TRUE)
        up    == [i \in 1..Len(users) |-> ScanMood(users[i])] \o builtinMoods
    IN  IF asc THEN up ELSE Reverse(up)

\* the items of the merged sequence beyond the cursor
Beyond(u, args) ==
    LET asc    == sortAsc(args)
        all    == Merged(u, asc)
        cursor == IF asc THEN args.After ELSE args.Before
        at     == {i \in DOMAIN all :
                       IF all[i].UserDefined THEN EqualFold(all[i].Name, cursor)
                       ELSE all[i].Name = cursor}
    IN  IF cursor = NoName THEN all
        ELSE IF at = {} THEN <<>>
        ELSE SubSeq(all, (CHOOSE i \in at : TRUE) + 1, Len(all))

\* C5: hasMore is true exactly when an item of the merged sequence lies
\* beyond the last returned item
C5_HasMoreExact ==
    (last.op = "ListMoods" /\ last.out.err = NilErr) =>
        last.out.hasMore = (Len(Beyond(last.user, last.in)) > Len(last.out.moods))

-----------------------------------------------------------------------------
(* Conversations and lines *)

maxInsertRetries == 16
MaxConvoId == 1
MaxLineId == 2

convoIDPrefix == <<"c","v","_">>
lineIDPrefix  == <<"l","n","_">>
errExhausted == "Unable to insert a new, unique record"

Digits == <<"0","1","2","3","4","5","6","7","8","9",
            "a","b","c","d","e","f","g","h","i","j","k","l","m",
            "n","o","p","q","r","s","t","u","v","w","x","y","z">>

RECURSIVE FormatUint(_, _)
\* strconv.FormatUint
FormatUint(n, base) ==
    IF n < base THEN <<Digits[n + 1]>>
    ELSE FormatUint(n \div base, base) \o <<Digits[(n % base) + 1]>>

\* the values rand.Int is taken to return
RandValues == {7, 46}
OneRandValue == {7}

NullInt    == [Valid |-> FALSE, Int64 |-> 0]
NullString == [Valid |-> FALSE, String |-> ""]

\* the uniqueness constraints on the public ids
ConvoIdTaken(publicID) == \E c \in convos : c.public_id = publicID
LineIdTaken(publicID)  == \E l \in lines : l.public_id = publicID

\* the foreign keys of a line: its mood, when it has one, and its conversation
LineRefsMissing(moodID, conversationID) ==
    \/ moodID.Valid /\ ~\E r \in moods : r.id = moodID.Int64
    \/ ~\E c \in convos : c.id = conversationID

\* an insert that the store never rejects
insertConvoStmtUnchecked(publicID, userID, heading) ==
    [code |-> dbOK,
     row  |-> [id |-> convoSeq + 1, public_id |-> publicID,
               user_id |-> userID, heading |-> heading]]

\* insertConvo: rejected when the public id is already stored
insertConvoStmt(publicID, userID, heading) ==
    IF ConvoIdTaken(publicID)
    THEN [code |-> dbErrDupUnique]
    ELSE [code |-> dbOK,
          row  |-> [id |-> convoSeq + 1, public_id |-> publicID,
                    user_id |-> userID, heading |-> heading]]

\* a lookup that is not scoped by the owner
getConvoAnyUser(userID, publicID) == {c \in convos : c.public_id = publicID}

\* getConvo
getConvo(userID, publicID) ==
    {c \in convos : c.user_id = userID /\ c.public_id = publicID}

\* a mood id that is never passed on
LineMoodIDNull(line) == NullInt

\* the mood_id parameter InsertLine passes to insertLine
LineMoodID(line) ==
    IF line.mood.id # 0 THEN [Valid |-> TRUE, Int64 |-> line.mood.id] ELSE NullInt

\* insertLine: rejected when the public id is already stored, or when the
\* mood or the conversation it references is not
insertLineStmt(publicID, moodName, moodID, conversationID) ==
    IF LineIdTaken(publicID)
    THEN [code |-> dbErrDupUnique]
    ELSE IF LineRefsMissing(moodID, conversationID)
    THEN [code |-> dbErrFKViolation]
    ELSE [code |-> dbOK,
          row  |-> [id |-> lineSeq + 1, public_id |-> publicID,
                    mood_name |-> moodName, mood_id |-> moodID,
                    conversation_id |-> conversationID]]

\* a test that takes every failure for a uniqueness violation
IsDupUniqueAnyFailure(code) == code # dbOK

\* the test on a failed insert: only a uniqueness violation lets the loop go on
IsDupUnique(code) == code = dbErrDupUnique

\* a loop that runs once more
RetriesLeftInclusive(i) == i <= maxInsertRetries

\* the loop condition of NewConversation and InsertLine
RetriesLeft(i) == i < maxInsertRetries

RECURSIVE NewConversationLoop(_, _, _, _)
\* the outcomes of the loop of NewConversation from iteration i on
NewConversationLoop(i, userID, heading, rand) ==
    IF ~RetriesLeft(i)
    THEN {[err |-> errExhausted]}
    ELSE LET retry == NewConversationLoop(i + 1, userID, heading, rand)
         IN  UNION {
                 LET publicID == convoIDPrefix \o FormatUint(rv, 36)
                     res      == insertConvoStmt(publicID, userID, heading)
                 IN  IF res.code = dbOK
                     THEN {[err |-> NilErr, row |-> res.row]}
                     ELSE IF ~IsDupUnique(res.code)
                     THEN {[err |-> errWrapped]}
                     ELSE retry
                 : rv \in rand}

NewConversation(userID, heading, rand, cap) ==
    /\ \E o \in NewConversationLoop(0, userID, heading, rand) :
           /\ last' = Ret("NewConversation", userID, [heading |-> heading],
                          [err |-> o.err,
                           ID |-> IF o.err = NilErr THEN o.row.public_id ELSE NoName])
           /\ IF o.err = NilErr
              THEN /\ o.row.id <= cap
                   /\ convos' = convos \cup {o.row}
                   /\ convoSeq' = o.row.id
              ELSE UNCHANGED <<convos, convoSeq>>
    /\ UNCHANGED <<moods, moodSeq, moodLog, lines, lineSeq, convoFK, calls>>

RECURSIVE InsertLineLoop(_, _, _, _)
\* the outcomes of the loop of InsertLine from iteration i on
InsertLineLoop(i, conversationID, line, rand) ==
    IF ~RetriesLeft(i)
    THEN {[err |-> errExhausted]}
    ELSE LET retry == InsertLineLoop(i + 1, conversationID, line, rand)
         IN  UNION {
                 LET publicID == lineIDPrefix \o FormatUint(rv, 36)
                     res      == insertLineStmt(publicID, line.MoodName,
                                                LineMoodID(line), conversationID)
                 IN  IF res.code = dbOK
                     THEN {[err |-> NilErr, row |-> res.row]}
                     ELSE IF ~IsDupUnique(res.code)
                     THEN {[err |-> errWrapped]}
                     ELSE retry
                 : rv \in rand}

InsertLine(userID, convoID, line, rand, cap) ==
    /\ LET found == getConvo(userID, convoID)
       IN  IF found = {}
           THEN /\ last' = Ret("InsertLine", userID, [convoID |-> convoID, line |-> line],
                               [err |-> errWrapped, ID |-> NoName])
                /\ UNCHANGED <<lines, lineSeq>>
           ELSE \E o \in InsertLineLoop(0, (CHOOSE c \in found : TRUE).id, line, rand) :
                    /\ last' = Ret("InsertLine", userID,
                                   [convoID |-> convoID, line |-> line],
                                   [err |-> o.err,
                                    ID |-> IF o.err = NilErr THEN o.row.public_id
                                           ELSE NoName])
                    /\ IF o.err = NilErr
                       THEN /\ o.row.id <= cap
                            /\ lines' = lines \cup {o.row}
                            /\ lineSeq' = o.row.id
                       ELSE UNCHANGED <<lines, lineSeq>>
    /\ UNCHANGED <<moods, moodSeq, moodLog, convos, convoSeq, convoFK, calls>>

\* deleteConvo, with the lines of the conversation cascading or restricting
DeleteConversation(userID, convoID) ==
    /\ LET match    == getConvo(userID, convoID)
           children == {l \in lines : \E c \in match : l.conversation_id = c.id}
       IN  IF convoFK = "restrict" /\ children # {}
           THEN /\ last' = Ret("DeleteConversation", userID, [convoID |-> convoID],
                               [err |-> dbErrFKViolation])
                /\ UNCHANGED <<convos, lines>>
           ELSE /\ convos' = convos \ match
                /\ lines' = lines \ children
                /\ last' = Ret("DeleteConversation", userID, [convoID |-> convoID],
                               [err |-> doDelete(dbOK, Cardinality(match))])
    /\ UNCHANGED <<moods, moodSeq, moodLog, convoSeq, lineSeq, convoFK, calls>>

\* deleteLine: the lines of that public id in the user's conversation
deleteLineMatch(userID, convoID, lineID) ==
    {l \in lines :
        /\ l.public_id = lineID
        /\ \E c \in convos : /\ l.conversation_id = c.id
                             /\ c.public_id = convoID
                             /\ c.user_id = userID}

DeleteLine(userID, convoID, lineID) ==
    /\ LET match == deleteLineMatch(userID, convoID, lineID)
       IN  /\ lines' = lines \ match
           /\ last' = Ret("DeleteLine", userID, [convoID |-> convoID, lineID |-> lineID],
                          [err |-> doDelete(dbOK, Cardinality(match))])
    /\ UNCHANGED <<moods, moodSeq, moodLog, convos, convoSeq, lineSeq, convoFK, calls>>

\* a row of lines without the columns of its mood
LineRecNoJoin(l) ==
    [ID |-> l.public_id, MoodName |-> l.mood_name,
     Eyes |-> NullString, Tongue |-> NullString]

\* a row of lines LEFT JOIN moods ON lines.mood_id = moods.id
LineRec(l) ==
    LET joined == {r \in moods : l.mood_id.Valid /\ r.id = l.mood_id.Int64}
    IN  IF joined = {}
        THEN [ID |-> l.public_id, MoodName |-> l.mood_name,
              Eyes |-> NullString, Tongue |-> NullString]
        ELSE LET r == CHOOSE r \in joined : TRUE
             IN  [ID |-> l.public_id, MoodName |-> l.mood_name,
                  Eyes   |-> [Valid |-> TRUE, String |-> r.eyes],
                  Tongue |-> [Valid |-> TRUE, String |-> r.tongue]]

RECURSIVE BuiltinFolded(_, _)
BuiltinFolded(i, name) ==
    IF i > Len(builtinMoods) THEN NilMood
    ELSE IF EqualFold(builtinMoods[i].Name, name) THEN builtinMoods[i]
    ELSE BuiltinFolded(i + 1, name)

\* the mood setLineMood attaches to a scanned line, NilMood when it attaches none
setLineMood(rec) ==
    IF rec.Eyes.Valid
    THEN MkMood(rec.MoodName, rec.Eyes.String, rec.Tongue.String, TRUE, 0)
    ELSE BuiltinFolded(1, rec.MoodName)

errInvalidMood == "does not have a valid mood"

NilLine == [nil |-> TRUE]

ScanLine(l) == [ID |-> l.public_id, MoodName |-> l.mood_name, mood |-> setLineMood(LineRec(l))]

\* getLine: the lines of that public id in the user's conversation
getLineMatch(userID, convoID, lineID) ==
    {l \in lines :
        /\ l.public_id = lineID
        /\ \E c \in convos : /\ l.conversation_id = c.id
                             /\ c.public_id = convoID
                             /\ c.user_id = userID}

GetLine(userID, convoID, lineID) ==
    LET found == getLineMatch(userID, convoID, lineID)
    IN  IF found = {} THEN [line |-> NilLine, err |-> NilErr]
        ELSE LET line == ScanLine(CHOOSE l \in found : TRUE)
             IN  IF line.mood = NilMood
                 THEN [line |-> NilLine, err |-> errInvalidMood]
                 ELSE [line |-> line, err |-> NilErr]

RECURSIVE LinesInOrderDesc(_)
\* the lines with the newest first
LinesInOrderDesc(ls) ==
    IF ls = {} THEN <<>>
    ELSE LET first == CHOOSE l \in ls : \A q \in ls : l.id >= q.id
         IN  <<first>> \o LinesInOrderDesc(ls \ {first})

RECURSIVE LinesInOrder(_)
\* ORDER BY lines.id ASC
LinesInOrder(ls) ==
    IF ls = {} THEN <<>>
    ELSE LET first == CHOOSE l \in ls : \A q \in ls : l.id <= q.id
         IN  <<first>> \o LinesInOrder(ls \ {first})

NilConvo == [nil |-> TRUE]

GetConversation(userID, convoID) ==
    LET found == getConvo(userID, convoID)
    IN  IF found = {} THEN [convo |-> NilConvo, err |-> NilErr]
        ELSE LET c     == CHOOSE c \in found : TRUE
                 rows  == LinesInOrder({l \in lines : l.conversation_id = c.id})
                 recs  == [i \in 1..Len(rows) |-> ScanLine(rows[i])]
             IN  IF \E i \in DOMAIN recs : recs[i].mood = NilMood
                 THEN [convo |-> NilConvo, err |-> errInvalidMood]
                 ELSE [convo |-> [ID |-> c.public_id, Heading |-> c.heading,
                                  Lines |-> recs],
                       err |-> NilErr]

CallGetLine(userID, convoID, lineID) ==
    /\ last' = Ret("GetLine", userID, [convoID |-> convoID, lineID |-> lineID],
                   GetLine(userID, convoID, lineID))
    /\ StoreUnchanged
    /\ UNCHANGED calls

CallGetConversation(userID, convoID) ==
    /\ last' = Ret("GetConversation", userID, [convoID |-> convoID],
                   GetConversation(userID, convoID))
    /\ StoreUnchanged
    /\ UNCHANGED calls

-----------------------------------------------------------------------------
(* Moods, conversations and lines together *)

StoreNameInputs == {happy, Happy, Dead}
GetNameInputs   == {happy, Happy, Dead, builtinMoods[3].Name}

ConvoIDs == {convoIDPrefix \o FormatUint(rv, 36) : rv \in OneRandValue}
LineIDs  == {lineIDPrefix \o FormatUint(rv, 36) : rv \in RandValues}

StoreMoodInputs ==
    {[Name |-> n, Eyes |-> l.Eyes, Tongue |-> l.Tongue] : n \in StoreNameInputs, l \in ListLooks}

\* the lines a caller can hand to InsertLine: the mood is one GetMood returned
\* to that user at some time (a catalog mood, or a row the user has had), the
\* mood name is the name as requested or as returned; InsertLine reads only
\* the id of the mood
LineInputs(userID) ==
    {[MoodName |-> n, mood |-> [Name |-> n, UserDefined |-> FALSE, id |-> 0]] :
         n \in {x \in GetNameInputs : BuiltinNamed(1, x) # NilMood}}
    \cup UNION {
        {[MoodName |-> n, mood |-> [Name |-> r.name, UserDefined |-> TRUE, id |-> r.id]] :
             n \in {x \in GetNameInputs \cup {r.name} : EqualFold(x, r.name)}}
        : r \in {x \in moodLog : x.user_id = userID}}

NextStore ==
    \/ \E u \in Users, m \in StoreMoodInputs : SetMood(u, m)
    \/ \E u \in Users, n \in StoreNameInputs : DeleteMood(u, n)
    \/ \E u \in Users : NewConversation(u, "trip", OneRandValue, MaxConvoId)
    \/ \E u \in Users, c \in ConvoIDs : DeleteConversation(u, c)
    \/ \E u \in Users, c \in ConvoIDs : \E l \in LineInputs(u) : InsertLine(u, c, l, RandValues, MaxLineId)
    \/ \E u \in Users, c \in ConvoIDs, l \in LineIDs : DeleteLine(u, c, l)

SpecStore == Init /\ [][NextStore]_vars

-----------------------------------------------------------------------------
(* The identifier-generation loops, one insert attempt per step *)

MaxGenRows == 2

GenThreads == {"t1"}

\* a call that has returned: its error and id, the number of statements it
\* issued and the result code of the last of them
Returned(op, userID, err, id, issued, code) ==
    [pc |-> "idle", op |-> op, userID |-> userID, err |-> err, ID |-> id,
     issued |-> issued, code |-> code]

NoCode == ""

BeginNewConversation(t, userID, heading) ==
    /\ calls[t].pc = "idle"
    /\ calls' = [calls EXCEPT ![t] = [pc |-> "NewConversation", i |-> 0, issued |-> 0,
                                      code |-> NoCode,
                                      userID |-> userID, heading |-> heading]]
    /\ StoreUnchanged
    /\ UNCHANGED last

\* one iteration of the loop of NewConversation: a random id, one insert, and
\* the return or the next iteration that its result selects
StepNewConversation(t, rand, cap) ==
    /\ calls[t].pc = "NewConversation"
    /\ LET c == calls[t]
       IN  \E rv \in rand, storeDown \in BOOLEAN :
               LET publicID == convoIDPrefix \o FormatUint(rv, 36)
                   res      == IF storeDown THEN [code |-> dbErrOther]
                               ELSE insertConvoStmt(publicID, c.userID, c.heading)
               IN  IF res.code = dbOK
                   THEN /\ res.row.id <= cap
                        /\ convos' = convos \cup {res.row}
                        /\ convoSeq' = res.row.id
                        /\ calls' = [calls EXCEPT ![t] =
                               Returned("NewConversation", c.userID, NilErr,
                                        publicID, c.issued + 1, res.code)]
                   ELSE /\ UNCHANGED <<convos, convoSeq>>
                        /\ calls' = [calls EXCEPT ![t] =
                               IF ~IsDupUnique(res.code)
                               THEN Returned("NewConversation", c.userID, errWrapped,
                                             NoName, c.issued + 1, res.code)
                               ELSE IF RetriesLeft(c.i + 1)
                               THEN [c EXCEPT !.i = c.i + 1, !.issued = c.issued + 1,
                                              !.code = res.code]
                               ELSE Returned("NewConversation", c.userID, errExhausted,
                                             NoName, c.issued + 1, res.code)]
    /\ UNCHANGED <<moods, moodSeq, moodLog, lines, lineSeq, convoFK, last>>

BeginInsertLine(t, userID, convoID, line) ==
    /\ calls[t].pc = "idle"
    /\ LET found == getConvo(userID, convoID)
       IN  calls' = [calls EXCEPT ![t] =
               IF found = {}
               THEN Returned("InsertLine", userID, errWrapped, NoName, 0, NoCode)
               ELSE [pc |-> "InsertLine", i |-> 0, issued |-> 0, code |-> NoCode,
                     userID |-> userID,
                     conversationID |-> (CHOOSE c \in found : TRUE).id, line |-> line]]
    /\ StoreUnchanged
    /\ UNCHANGED last

\* one iteration of the loop of InsertLine
StepInsertLine(t, rand, cap) ==
    /\ calls[t].pc = "InsertLine"
    /\ LET c == calls[t]
       IN  \E rv \in rand, storeDown \in BOOLEAN :
               LET publicID == lineIDPrefix \o FormatUint(rv, 36)
                   res      == IF storeDown THEN [code |-> dbErrOther]
                               ELSE insertLineStmt(publicID, c.line.MoodName,
                                                   LineMoodID(c.line), c.conversationID)
               IN  IF res.code = dbOK
                   THEN /\ res.row.id <= cap
                        /\ lines' = lines \cup {res.row}
                        /\ lineSeq' = res.row.id
                        /\ calls' = [calls EXCEPT ![t] =
                               Returned("InsertLine", c.userID, NilErr,
                                        publicID, c.issued + 1, res.code)]
                   ELSE /\ UNCHANGED <<lines, lineSeq>>
                        /\ calls' = [calls EXCEPT ![t] =
                               IF ~IsDupUnique(res.code)
                               THEN Returned("InsertLine", c.userID, errWrapped,
                                             NoName, c.issued + 1, res.code)
                               ELSE IF RetriesLeft(c.i + 1)
                               THEN [c EXCEPT !.i = c.i + 1, !.issued = c.issued + 1,
                                              !.code = res.code]
                               ELSE Returned("InsertLine", c.userID, errExhausted,
                                             NoName, c.issued + 1, res.code)]
    /\ UNCHANGED <<moods, moodSeq, moodLog, convos, convoSeq, convoFK, last>>

GenConvoIDs == {convoIDPrefix \o FormatUint(rv, 36) : rv \in RandValues}

NextGen ==
    \/ \E t \in GenThreads, u \in Users : BeginNewConversation(t, u, "trip")
    \/ \E t \in GenThreads : StepNewConversation(t, RandValues, MaxGenRows)
    \/ \E t \in GenThreads, u \in Users, c \in GenConvoIDs :
           \E l \in LineInputs(u) : BeginInsertLine(t, u, c, l)
    \/ \E t \in GenThreads : StepInsertLine(t, RandValues, MaxGenRows)

InitGen == Init /\ convoFK = "restrict"

SpecGen == InitGen /\ [][NextGen]_vars

\* a call once started keeps running: every iteration of its loop is taken
FairSpecGen ==
    /\ SpecGen
    /\ \A t \in GenThreads :
           /\ WF_vars(StepNewConversation(t, RandValues, MaxGenRows))
           /\ WF_vars(StepInsertLine(t, RandValues, MaxGenRows))

-----------------------------------------------------------------------------
(* Claims on moods, conversations and lines *)

InCatalogFold(name) ==
    \E i \in DOMAIN builtinMoods : Lower(builtinMoods[i].Name) = Lower(name)

RowsNamed(rows, u, n) == {r \in rows : r.user_id = u /\ Lower(r.name) = Lower(n)}

Referencing(rows) ==
    {l \in lines : \E r \in rows : l.mood_id.Valid /\ l.mood_id.Int64 = r.id}

\* C6: SetMood and DeleteMood with a catalog name in any letter case fail with
\* the built-in error and leave every table unchanged; no mood row ever has a
\* name equal, ignoring case, to a catalog name
C6_BuiltinProtected ==
    /\ [](\A r \in moods : ~InCatalogFold(r.name))
    /\ [][(/\ last' # last
           /\ \/ last'.op = "SetMood" /\ InCatalogFold(last'.in.Name)
              \/ last'.op = "DeleteMood" /\ InCatalogFold(last'.in.name))
          => /\ last'.out.err = errBuiltinMood
             /\ UNCHANGED <<moods, moodSeq, moodLog, convos, convoSeq, lines, lineSeq>>]_vars

\* a catalog name in another letter case was refused while the user has a mood
C6_Witness ==
    /\ last.op = "DeleteMood"
    /\ last.in.name = Dead
    /\ last.out.err = errBuiltinMood
    /\ \E r \in moods : r.user_id = last.user

\* C7: a DeleteMood that fails with a conflict lists exactly the public ids of
\* the lines referencing the mood, in every letter case of the name
C7_ConflictListExact ==
    (last.op = "DeleteMood" /\ last.out.err = errConflict) =>
        LET blocking == {l.public_id :
                             l \in Referencing(RowsNamed(moods, last.user, last.in.name))}
        IN  /\ {last.out.ids[i] : i \in DOMAIN last.out.ids} = blocking
            /\ Len(last.out.ids) = Cardinality(blocking)

\* C8: DeleteMood on an existing mood that no line references succeeds and
\* removes that one row of that owner, after which GetMood finds nothing; a
\* GetMood that found nothing finds a mood again only after a SetMood of it
C8_DeleteThenNotFound ==
    /\ [][\A u \in Users, n \in StoreNameInputs :
              (/\ last' # last
               /\ last'.op = "DeleteMood" /\ last'.user = u /\ last'.in.name = n
               /\ ~InCatalogFold(n)
               /\ RowsNamed(moods, u, n) # {}
               /\ Referencing(RowsNamed(moods, u, n)) = {})
              => /\ last'.out.err = NilErr
                 /\ moods' = moods \ RowsNamed(moods, u, n)
                 /\ Cardinality(moods') = Cardinality(moods) - 1
                 /\ UNCHANGED <<convos, lines>>
                 /\ GetMood(u, n)' = NilMood]_vars
    /\ [][\A u \in Users, n \in GetNameInputs :
              (moods' # moods /\ GetMood(u, n) = NilMood /\ GetMood(u, n)' # NilMood)
              => /\ last'.op = "SetMood" /\ last'.user = u
                 /\ Lower(last'.in.Name) = Lower(n)
                 /\ last'.out.err = NilErr]_vars

\* a mood was deleted while lines exist and another owner keeps a mood of that name
C8_Witness ==
    /\ last.op = "DeleteMood"
    /\ last.out.err = NilErr
    /\ lines # {}
    /\ \E r \in moods : r.user_id # last.user /\ Lower(r.name) = Lower(last.in.name)
    /\ GetMood(last.user, last.in.name) = NilMood

ResolvesTo(l) ==
    IF l.mood_id.Valid
    THEN \E r \in moods : r.id = l.mood_id.Int64
    ELSE InCatalogFold(l.mood_name)

\* C9: every stored line resolves to an existing mood row or to a catalog
\* mood, no step removes a mood row that a line references, and neither
\* GetLine nor GetConversation fails for want of a valid mood
C9_LinesResolve ==
    /\ [](\A l \in lines : ResolvesTo(l) /\ setLineMood(LineRec(l)) # NilMood)
    /\ [](\A u \in Users, c \in ConvoIDs :
              /\ GetConversation(u, c).err = NilErr
              /\ \A id \in LineIDs : GetLine(u, c, id).err = NilErr)
    /\ [][\A r \in moods :
              (\E l \in lines : l.mood_id.Valid /\ l.mood_id.Int64 = r.id)
              => \E q \in moods' : q.id = r.id]_vars

\* DeleteMood was refused for a mood that a line references
C9_Witness ==
    /\ last.op = "DeleteMood"
    /\ last.out.err = errConflict
    /\ \E l \in lines : l.mood_id.Valid /\ \E r \in moods : r.id = l.mood_id.Int64
    /\ \E l \in lines : ~l.mood_id.Valid

\* C10: a call issues at most 16 inserts and returns; it fails as exhausted
\* only after exactly 16 inserts, and an insert that is rejected adds no row
C10_BoundedRetries ==
    /\ [](\A t \in GenThreads :
              /\ calls[t].pc # "idle" => calls[t].issued < 16
              /\ (calls[t].pc = "idle" /\ calls[t] # IdleCall) =>
                     /\ calls[t].issued <= 16
                     /\ calls[t].err = errExhausted => calls[t].issued = 16)
    /\ [][\A t \in GenThreads :
              (/\ calls[t].pc # "idle"
               /\ calls'[t] # calls[t]
               /\ ~(calls'[t].pc = "idle" /\ calls'[t].err = NilErr))
              => UNCHANGED <<convos, convoSeq, lines, lineSeq>>]_vars
    /\ \A t \in GenThreads : (calls[t].pc # "idle") ~> (calls[t].pc = "idle")

\* NewConversation gave up after sixteen collisions
C10_Witness ==
    /\ calls["t1"].pc = "idle" /\ calls["t1"] # IdleCall
    /\ calls["t1"].op = "NewConversation"
    /\ calls["t1"].err = errExhausted
    /\ calls["t1"].issued = 16

-----------------------------------------------------------------------------
(* Failures of the store: the loops and the deletes, one statement per step *)

\* DeleteLine when the store may fail: deleteLine is executed once
DeleteLineOnce(t, userID, convoID, lineID) ==
    /\ calls[t].pc = "idle"
    /\ \E storeDown \in BOOLEAN :
           LET code  == IF storeDown THEN dbErrOther ELSE dbOK
               match == IF storeDown THEN {}
                        ELSE deleteLineMatch(userID, convoID, lineID)
           IN  /\ lines' = lines \ match
               /\ calls' = [calls EXCEPT ![t] =
                      Returned("DeleteLine", userID,
                               doDelete(code, Cardinality(match)), NoName, 1, code)]
    /\ UNCHANGED <<moods, moodSeq, moodLog, convos, convoSeq, lineSeq, convoFK, last>>

\* DeleteConversation when the store may fail: deleteConvo is executed once
DeleteConversationOnce(t, userID, convoID) ==
    /\ calls[t].pc = "idle"
    /\ \E storeDown \in BOOLEAN :
           LET match    == getConvo(userID, convoID)
               children == {l \in lines : \E c \in match : l.conversation_id = c.id}
               code     == IF storeDown THEN dbErrOther
                           ELSE IF convoFK = "restrict" /\ children # {}
                           THEN dbErrFKViolation
                           ELSE dbOK
               gone     == IF code = dbOK THEN match ELSE {}
           IN  /\ convos' = convos \ gone
               /\ lines' = IF code = dbOK THEN lines \ children ELSE lines
               /\ calls' = [calls EXCEPT ![t] =
                      Returned("DeleteConversation", userID,
                               doDelete(code, Cardinality(gone)), NoName, 1, code)]
    /\ UNCHANGED <<moods, moodSeq, moodLog, convoSeq, lineSeq, convoFK, last>>

NextFail ==
    \/ NextGen
    \/ \E t \in GenThreads, u \in Users, c \in GenConvoIDs, l \in LineIDs :
           DeleteLineOnce(t, u, c, l)
    \/ \E t \in GenThreads, u \in Users, c \in GenConvoIDs :
           DeleteConversationOnce(t, u, c)

SpecFail == InitGen /\ [][NextFail]_vars

LoopOps == {"NewConversation", "InsertLine"}

HasReturned(c) == c.pc = "idle" /\ c # IdleCall

\* C11: a call goes on to another insert only after a uniqueness violation; an
\* insert that fails otherwise ends the call at once with that failure and
\* without a row; a delete executes its statement once and returns its failure
C11_NoRetryOnFailure ==
    /\ [](\A t \in GenThreads :
              /\ (calls[t].pc # "idle" /\ calls[t].issued > 0)
                     => calls[t].code = dbErrDupUnique
              /\ (HasReturned(calls[t]) /\ calls[t].op \notin LoopOps)
                     => /\ calls[t].issued = 1
                        /\ calls[t].code # dbOK => calls[t].err = calls[t].code)
    /\ [][\A t \in GenThreads :
              (calls[t].pc # "idle" /\ calls'[t] # calls[t])
              => /\ calls'[t].issued = calls[t].issued + 1
                 /\ calls'[t].code \notin {dbOK, dbErrDupUnique}
                        => /\ calls'[t].pc = "idle"
                           /\ calls'[t].err = errWrapped
                           /\ UNCHANGED <<convos, convoSeq, lines, lineSeq>>]_vars
    /\ [][\A t \in GenThreads :
              (calls[t].pc = "idle" /\ calls'[t] # calls[t])
              => calls'[t].issued <= 1]_vars

\* InsertLine collided once and then met a failure of the store
C11_Witness ==
    /\ HasReturned(calls["t1"])
    /\ calls["t1"].op = "InsertLine"
    /\ calls["t1"].err = errWrapped
    /\ calls["t1"].code = dbErrOther
    /\ calls["t1"].issued = 2

-----------------------------------------------------------------------------
(* Concurrent creation: two callers, one call each, one insert per step *)

\* a conversation that exists before the two calls start
FirstConvoID == convoIDPrefix \o FormatUint(100, 36)

InitRace ==
    /\ moods = {}
    /\ moodSeq = 0
    /\ moodLog = {}
    /\ convos = {[id |-> 1, public_id |-> FirstConvoID, user_id |-> "u1",
                  heading |-> "trip"]}
    /\ convoSeq = 1
    /\ lines = {}
    /\ lineSeq = 0
    /\ convoFK = "restrict"
    /\ calls = [t \in Threads |-> IdleCall]
    /\ last = Ret("NewConversation", "u1", [heading |-> "trip"],
                  [err |-> NilErr, ID |-> FirstConvoID])

NextRace ==
    \/ \E t \in Threads, u \in Users :
           calls[t] = IdleCall /\ BeginNewConversation(t, u, "trip")
    \/ \E t \in Threads : StepNewConversation(t, RandValues, MaxGenRows + 1)
    \/ \E t \in Threads, u \in Users : \E l \in LineInputs(u) :
           calls[t] = IdleCall /\ BeginInsertLine(t, u, FirstConvoID, l)
    \/ \E t \in Threads : StepInsertLine(t, RandValues, MaxGenRows)

SpecRace == InitRace /\ [][NextRace]_vars

Succeeded(c, op) == HasReturned(c) /\ c.op = op /\ c.err = NilErr

\* C12: no two conversations and no two lines share a public id; a call that
\* succeeds has inserted one row and returns the public id of that row; two
\* calls of the same kind that succeed return different ids
C12_UniquePublicIds ==
    /\ [](\A a, b \in convos : a.public_id = b.public_id => a = b)
    /\ [](\A a, b \in lines : a.public_id = b.public_id => a = b)
    /\ [](\A t, o \in Threads :
              (/\ t # o
               /\ \E op \in LoopOps : Succeeded(calls[t], op) /\ Succeeded(calls[o], op))
              => calls[t].ID # calls[o].ID)
    /\ [][\A t \in Threads :
              (calls[t].pc # "idle" /\ Succeeded(calls'[t], "NewConversation"))
              => /\ \E r \in convos' :
                        /\ convos' \ convos = {r}
                        /\ r.public_id = calls'[t].ID
                        /\ r.user_id = calls'[t].userID
                 /\ convos \subseteq convos' /\ lines' = lines]_vars
    /\ [][\A t \in Threads :
              (calls[t].pc # "idle" /\ Succeeded(calls'[t], "InsertLine"))
              => /\ \E r \in lines' :
                        /\ lines' \ lines = {r}
                        /\ r.public_id = calls'[t].ID
                        /\ r.conversation_id = calls[t].conversationID
                 /\ lines \subseteq lines' /\ convos' = convos]_vars

\* two NewConversation calls of one owner succeeded, one after a collision
C12_Witness ==
    /\ Succeeded(calls["t1"], "NewConversation")
    /\ Succeeded(calls["t2"], "NewConversation")
    /\ calls["t1"].userID = calls["t2"].userID
    /\ calls["t2"].issued >= 2

-----------------------------------------------------------------------------
(* Concurrent SetMood: the update and the insert of setMood as two steps *)

\* the unique key of the moods table: owner and stored name
MoodKeyTaken(userID, name) ==
    \E r \in moods : r.user_id = userID /\ r.name = name

\* SetMood up to the update of setMood: the rows that match are updated and
\* the call returns; when none matches the insert is still to come
BeginSetMood(t, userID, m) ==
    /\ calls[t].pc = "idle"
    /\ IF isBuiltin(m.Name)
       THEN /\ calls' = [calls EXCEPT ![t] =
                   Returned("SetMood", userID, errBuiltinMood, NoName, 0, NoCode)]
            /\ UNCHANGED moods
       ELSE LET hit == findMood(userID, m.Name)
            IN  /\ moods' = (moods \ hit) \cup
                       {[r EXCEPT !.eyes = m.Eyes, !.tongue = m.Tongue] : r \in hit}
                /\ calls' = [calls EXCEPT ![t] =
                       IF hit # {}
                       THEN Returned("SetMood", userID, NilErr, NoName, 1, dbOK)
                       ELSE [pc |-> "SetMood", userID |-> userID, mood |-> m]]
    /\ UNCHANGED <<moodSeq, moodLog, convos, convoSeq, lines, lineSeq, convoFK, last>>

\* the insert of setMood, after an update that matched no row
FinishSetMood(t) ==
    /\ calls[t].pc = "SetMood"
    /\ LET c    == calls[t]
           name == StoredName(c.mood.Name)
           row  == [id |-> moodSeq + 1, user_id |-> c.userID, name |-> name,
                    eyes |-> c.mood.Eyes, tongue |-> c.mood.Tongue]
       IN  IF MoodKeyTaken(c.userID, name)
           THEN /\ calls' = [calls EXCEPT ![t] =
                       Returned("SetMood", c.userID, errWrapped, NoName, 1,
                                dbErrDupUnique)]
                /\ UNCHANGED <<moods, moodSeq, moodLog>>
           ELSE /\ row.id <= MaxMoodId
                /\ moods' = moods \cup {row}
                /\ moodSeq' = row.id
                /\ moodLog' = moodLog \cup
                       {[id |-> row.id, user_id |-> row.user_id, name |-> row.name,
                         eyes |-> row.eyes]}
                /\ calls' = [calls EXCEPT ![t] =
                       Returned("SetMood", c.userID, NilErr, NoName, 1, dbOK)]
    /\ UNCHANGED <<convos, convoSeq, lines, lineSeq, convoFK, last>>

NextUpsert ==
    \/ \E t \in Threads, u \in Users, m \in StoreMoodInputs : BeginSetMood(t, u, m)
    \/ \E t \in Threads : FinishSetMood(t)
    \/ \E u \in Users, n \in StoreNameInputs : DeleteMood(u, n)

SpecUpsert == InitGen /\ [][NextUpsert]_vars

\* C13: an owner never has two mood rows whose names are equal ignoring case
C13_NamesUniquePerOwner ==
    \A a, b \in moods :
        (a.user_id = b.user_id /\ Lower(a.name) = Lower(b.name)) => a = b

\* of two SetMood calls racing for a new name one was turned away by the key
C13_Witness ==
    /\ HasReturned(calls["t1"]) /\ calls["t1"].op = "SetMood"
    /\ calls["t1"].err = errWrapped /\ calls["t1"].code = dbErrDupUnique
    /\ HasReturned(calls["t2"]) /\ calls["t2"].op = "SetMood"
    /\ calls["t2"].err = NilErr
    /\ calls["t1"].userID = calls["t2"].userID
    /\ Cardinality({r \in moods : r.user_id = calls["t1"].userID}) = 1

-----------------------------------------------------------------------------
(* Conversations with their lines, read back *)

MaxReadConvoId == 2
MaxReadLineId == 3

\* the values rand.Int is taken to return for the lines that are read back
ReadRandValues == {7, 46, 100}

ReadLineIDs == {lineIDPrefix \o FormatUint(rv, 36) : rv \in ReadRandValues}

NextRead ==
    \/ \E u \in Users : NewConversation(u, "trip", RandValues, MaxReadConvoId)
    \/ \E u \in Users, c \in GenConvoIDs : \E l \in LineInputs(u) :
           InsertLine(u, c, l, ReadRandValues, MaxReadLineId)
    \/ \E u \in Users, c \in GenConvoIDs, l \in ReadLineIDs : DeleteLine(u, c, l)
    \/ \E u \in Users, c \in GenConvoIDs : CallGetConversation(u, c)

SpecRead == InitGen /\ [][NextRead]_vars

-----------------------------------------------------------------------------
(* The list of conversations *)

MaxListConvoId == 3
MaxConvoLimit == 3

\* a statement that includes the row of the cursor
listConvosQueryInclusive(userID, cursorID, limit, asc) ==
    LET matching == {c \in convos :
                        /\ c.user_id = userID
                        /\ \/ cursorID < 0
                           \/ IF asc THEN c.id >= cursorID ELSE c.id <= cursorID}
    IN  SqlLimit(OrderById(matching, asc), limit)

\* listConvos, prepared once with (">", "ASC") and once with ("<", "DESC")
listConvosQuery(userID, cursorID, limit, asc) ==
    LET matching == {c \in convos :
                        /\ c.user_id = userID
                        /\ \/ cursorID < 0
                           \/ IF asc THEN c.id > cursorID ELSE c.id < cursorID}
    IN  SqlLimit(OrderById(matching, asc), limit)

ScanConvo(c) == [ID |-> c.public_id, Heading |-> c.heading, id |-> c.id]

ListConversations(userID, args) ==
    LET asc    == sortAsc(args)
        cursor == IF asc THEN args.After ELSE args.Before
        found  == getConvo(userID, cursor)
    IN  IF cursor # NoName /\ found = {}
        THEN [convos |-> <<>>, hasMore |-> FALSE, err |-> errCursorNotFound]
        ELSE LET cursorID == IF cursor = NoName THEN -1
                             ELSE (CHOOSE c \in found : TRUE).id
                 rows     == listConvosQuery(userID, cursorID, args.Limit + 1, asc)
                 scanned  == [i \in 1..Len(rows) |-> ScanConvo(rows[i])]
                 hasMore  == Len(scanned) > args.Limit
             IN  [convos  |-> IF hasMore THEN SubSeq(scanned, 1, args.Limit)
                              ELSE scanned,
                  hasMore |-> hasMore,
                  err     |-> NilErr]

CallListConversations(userID, args) ==
    /\ last' = Ret("ListConversations", userID, args, ListConversations(userID, args))
    /\ StoreUnchanged
    /\ UNCHANGED calls

ListConvoIDs == {convoIDPrefix \o FormatUint(rv, 36) : rv \in ReadRandValues}

\* the requests the list of conversations is called with
ConvoListArgs ==
    {ListArgs(NoName, NoName, l) : l \in {0, 2}}
        \cup {ListArgs(c, NoName, 1) : c \in ListConvoIDs}
        \cup {ListArgs(NoName, c, 1) : c \in ListConvoIDs}

NextConvos ==
    \/ \E u \in Users : NewConversation(u, "trip", ReadRandValues, MaxListConvoId)
    \/ \E u \in Users, c \in ListConvoIDs : DeleteConversation(u, c)
    \/ \E u \in Users, a \in ConvoListArgs : CallListConversations(u, a)

SpecConvos == InitGen /\ [][NextConvos]_vars

-----------------------------------------------------------------------------
(* Moods that change their looks under the lines that reference them *)

LooksNameInputs == {happy, sleepy}

LooksMoodInputs ==
    {[Name |-> n, Eyes |-> l.Eyes, Tongue |-> l.Tongue] : n \in LooksNameInputs, l \in Looks}

\* the owner of the conversation; the other user only keeps moods
Writer == "u1"

\* the lines the writer says: in a mood of the catalog or in one of their own,
\* named as GetMood returned it
LooksLineInputs == {l \in LineInputs(Writer) : l.MoodName = l.mood.Name}

NextLooks ==
    \/ \E m \in LooksMoodInputs : SetMood(Writer, m)
    \/ \E u \in Users \ {Writer}, m \in LooksMoodInputs : m.Name = happy /\ SetMood(u, m)
    \/ NewConversation(Writer, "trip", OneRandValue, MaxConvoId)
    \/ \E c \in ConvoIDs : \E l \in LooksLineInputs :
           InsertLine(Writer, c, l, RandValues, MaxLineId)
    \/ \E c \in ConvoIDs, l \in LineIDs : CallGetLine(Writer, c, l)
    \/ \E c \in ConvoIDs : CallGetConversation(Writer, c)

SpecLooks == InitGen /\ [][NextLooks]_vars

-----------------------------------------------------------------------------
(* Claims on the deletes and the reads *)

ConvosOf(u, convoID) == {c \in convos : c.user_id = u /\ c.public_id = convoID}

LinesOf(u, convoID, lineID) ==
    {l \in lines : /\ l.public_id = lineID
                    /\ \E c \in ConvosOf(u, convoID) : l.conversation_id = c.id}

\* the rows that the delete which has just returned was aimed at
Aimed(op, u, in) ==
    IF op = "DeleteMood" THEN RowsNamed(moods, u, in.name)
    ELSE IF op = "DeleteConversation" THEN ConvosOf(u, in.convoID)
    ELSE LinesOf(u, in.convoID, in.lineID)

\* C14: a delete returns not-found exactly when no row of the owner has the
\* key, and then leaves every table as it was
C14_NotFoundIffNoRow ==
    [][(/\ last' # last
        /\ \/ last'.op = "DeleteMood" /\ ~InCatalogFold(last'.in.name)
           \/ last'.op \in {"DeleteConversation", "DeleteLine"})
       => /\ (last'.out.err = errRecordNotFound)
                 <=> (Aimed(last'.op, last'.user, last'.in) = {})
          /\ last'.out.err = errRecordNotFound
                 => UNCHANGED <<moods, moodSeq, convos, convoSeq, lines, lineSeq>>]_vars

\* a delete of a conversation that only another owner has was answered not-found
C14_Witness ==
    /\ last.op = "DeleteConversation"
    /\ last.out.err = errRecordNotFound
    /\ \E c \in convos : c.public_id = last.in.convoID /\ c.user_id # last.user

\* the public ids of the lines GetConversation returns
LineIDsOf(u, convoID) ==
    LET r == GetConversation(u, convoID)
    IN  IF r.err = NilErr /\ r.convo # NilConvo
        THEN [i \in 1..Len(r.convo.Lines) |-> r.convo.Lines[i].ID]
        ELSE <<>>

StoredLinesOf(u, convoID) ==
    {l \in lines : \E c \in ConvosOf(u, convoID) : l.conversation_id = c.id}

\* C15: GetConversation returns the stored lines of the conversation, each
\* once, in ascending order of their sequence number; InsertLine adds one line
\* with a sequence number above all others and DeleteLine removes the one line
\* named, every other line staying as it was
C15_LinesInInsertionOrder ==
    /\ [](\A u \in Users, c \in GenConvoIDs :
              \A r \in {GetConversation(u, c)}, ids \in {LineIDsOf(u, c)},
                 stored \in {StoredLinesOf(u, c)} :
                  /\ r.err = NilErr
                  /\ (r.convo = NilConvo) <=> (ConvosOf(u, c) = {})
                  /\ {ids[i] : i \in DOMAIN ids} = {l.public_id : l \in stored}
                  /\ Len(ids) = Cardinality(stored)
                  /\ \A i, j \in DOMAIN ids : i < j =>
                         \E a, b \in stored :
                             /\ a.public_id = ids[i] /\ b.public_id = ids[j]
                             /\ a.id < b.id)
    /\ [][(last' # last /\ last'.op = "DeleteLine" /\ last'.out.err = NilErr) =>
              \E l \in LinesOf(last'.user, last'.in.convoID, last'.in.lineID) :
                  lines' = lines \ {l}]_vars
    /\ [][(lines' # lines /\ last'.op = "InsertLine") =>
              \E r \in lines' :
                  /\ r \notin lines /\ lines' = lines \cup {r}
                  /\ r.public_id = last'.out.ID
                  /\ \E c \in ConvosOf(last'.user, last'.in.convoID) :
                         r.conversation_id = c.id
                  /\ \A q \in lines : q.id < r.id]_vars

\* a conversation was read back with two of the three lines inserted so far
C15_Witness ==
    /\ last.op = "GetConversation"
    /\ last.out.err = NilErr /\ last.out.convo # NilConvo
    /\ Len(last.out.convo.Lines) = 2
    /\ lineSeq = 3

ConvoCursors == ListConvoIDs \cup {NoName}

\* the owner's conversations strictly beyond the cursor in the direction
BeyondConvos(u, asc, cursor) ==
    {c \in convos :
        /\ c.user_id = u
        /\ \/ cursor = NoName
           \/ \E k \in ConvosOf(u, cursor) : IF asc THEN c.id > k.id ELSE c.id < k.id}

\* C16: ListConversations is ascending by creation when after is set or no
\* cursor is set and descending when only before is set; the page is the
\* first min(L, n) of the n conversations strictly beyond the cursor, without
\* the cursor's own conversation, and hasMore is n > L
C16_ConvoPages ==
    \A u \in Users, a \in ConvoCursors, b \in ConvoCursors, l \in 0..MaxConvoLimit :
        LET asc    == a # NoName \/ b = NoName
            cursor == IF asc THEN a ELSE b
        IN  (cursor = NoName \/ ConvosOf(u, cursor) # {}) =>
            \A r \in {ListConversations(u, ListArgs(a, b, l))},
               beyond \in {BeyondConvos(u, asc, cursor)} :
                /\ r.err = NilErr
                /\ Len(r.convos) = Min(l, Cardinality(beyond))
                /\ r.hasMore = (Cardinality(beyond) > l)
                /\ \A i \in DOMAIN r.convos :
                       /\ r.convos[i].ID # cursor
                       /\ \E c \in beyond : /\ r.convos[i].ID = c.public_id
                                             /\ r.convos[i].id = c.id
                                             /\ r.convos[i].Heading = c.heading
                /\ \A i, j \in DOMAIN r.convos : i < j =>
                       IF asc THEN r.convos[i].id < r.convos[j].id
                       ELSE r.convos[i].id > r.convos[j].id
                /\ \A c \in beyond, i \in DOMAIN r.convos :
                       (IF asc THEN c.id < r.convos[i].id ELSE c.id > r.convos[i].id)
                       => \E j \in DOMAIN r.convos : r.convos[j].id = c.id

\* a descending page of one conversation from the newest of three, with more to come
C16_Witness ==
    /\ last.op = "ListConversations"
    /\ last.in.After = NoName /\ last.in.Before # NoName
    /\ last.out.err = NilErr
    /\ Len(last.out.convos) = 1
    /\ last.out.hasMore
    /\ Cardinality({c \in convos : c.user_id = last.user}) = 3

ConvoOfLine(l) == {c \in convos : c.id = l.conversation_id}

\* the line as a read returns it once its mood shows the given looks
WithLooks(line, eyes, tongue) ==
    [line EXCEPT !.mood = [line.mood EXCEPT !.Eyes = eyes, !.Tongue = tongue]]

RefersTo(l, moodID) == l.mood_id.Valid /\ l.mood_id.Int64 = moodID

\* C17: GetLine and GetConversation return a line of a user-defined mood with
\* the eyes and tongue its mood row has now, a line of a catalog mood with the
\* catalog's, and the lines of GetConversation are the lines GetLine returns;
\* a SetMood that changes an existing mood changes, in what is read back, the
\* looks of the lines referencing that mood and nothing else
C17_UpdatedLooksShow ==
    /\ [](\A l \in lines : \A c \in ConvoOfLine(l) :
              \A r \in {GetLine(c.user_id, c.public_id, l.public_id)},
                 g \in {GetConversation(c.user_id, c.public_id)} :
                  /\ r.err = NilErr /\ r.line # NilLine
                  /\ IF l.mood_id.Valid
                     THEN \E q \in moods :
                              /\ q.id = l.mood_id.Int64
                              /\ r.line.mood = MkMood(l.mood_name, q.eyes, q.tongue, TRUE, 0)
                     ELSE \E i \in DOMAIN builtinMoods :
                              /\ r.line.mood = builtinMoods[i]
                              /\ EqualFold(builtinMoods[i].Name, l.mood_name)
                  /\ g.err = NilErr /\ g.convo # NilConvo
                  /\ Len(g.convo.Lines) =
                         Cardinality({k \in lines : k.conversation_id = c.id})
                  /\ \E i \in DOMAIN g.convo.Lines : g.convo.Lines[i] = r.line)
    /\ [][(last'.op = "SetMood" /\ moods' # moods /\ moodSeq' = moodSeq) =>
              \A l \in lines : \A c \in ConvoOfLine(l) :
                  \A before \in {GetLine(c.user_id, c.public_id, l.public_id)},
                        after \in {GetLine(c.user_id, c.public_id, l.public_id)'} :
                         after.err = NilErr /\
                         after.line = IF RefersTo(l, last'.out.id)
                                      THEN WithLooks(before.line, last'.in.Eyes,
                                                     last'.in.Tongue)
                                      ELSE before.line]_vars

\* SetMood gave new eyes to a mood that one line references while another
\* line of the conversation has a catalog mood
C17_Witness ==
    /\ last.op = "SetMood" /\ last.out.err = NilErr
    /\ \E g \in moodLog : g.id = last.out.id /\ g.eyes # last.in.Eyes
    /\ \E l \in lines : RefersTo(l, last.out.id)
    /\ \E l \in lines : ~l.mood_id.Valid

-----------------------------------------------------------------------------
(* Claims on the cursor and on the two partitions of the mood list *)

NamesUserMood(u, cursor) == \E r \in UserMoodsOf(u) : EqualFold(r.name, cursor)

\* the cursor is the name of a catalog mood as the catalog spells it
NamesCatalogMood(cursor) == \E i \in DOMAIN builtinMoods : builtinMoods[i].Name = cursor

CursorInputs == CursorNames \cup {Dead}

CursorArg(asc, cursor, limit) ==
    IF asc THEN ListArgs(cursor, NoName, limit) ELSE ListArgs(NoName, cursor, limit)

\* C18: ListMoods with a cursor fails, with errCursorNotFound, exactly when
\* the cursor names neither a mood of the owner nor a catalog mood; a cursor
\* that resolves only in the partition visited second gives the first items,
\* up to the limit, beyond it in that partition
C18_CursorNotFound ==
    \A u \in Users, c \in CursorInputs, l \in 0..MaxLimit, asc \in BOOLEAN :
        \A r \in {ListMoods(u, CursorArg(asc, c, l))} :
            /\ r.err \in {NilErr, errCursorNotFound}
            /\ (r.err = errCursorNotFound) <=>
                   ~(NamesUserMood(u, c) \/ NamesCatalogMood(c))
            /\ ((asc /\ NamesCatalogMood(c)) \/ (~asc /\ NamesUserMood(u, c))) =>
                   \A b \in {Beyond(u, CursorArg(asc, c, l))} :
                       /\ r.moods = SubSeq(b, 1, Min(l, Len(b)))
                       /\ \A i \in DOMAIN r.moods : r.moods[i].UserDefined = ~asc

\* a descending listing from the younger of two moods of the owner returned
\* the older one, and no catalog mood
C18_Witness ==
    /\ last.op = "ListMoods" /\ last.in.Before # NoName
    /\ NamesUserMood(last.user, last.in.Before)
    /\ last.out.err = NilErr
    /\ Len(last.out.moods) = 1 /\ last.out.moods[1].UserDefined

\* what the partition visited first answers to the request
FirstPartition(u, args) ==
    IF sortAsc(args) THEN listUserMoods(u, TRUE, args)
    ELSE listBuiltinMoods(FALSE, args)

\* the number of items in the partition visited second
SecondSize(u, args) ==
    IF sortAsc(args) THEN Len(builtinMoods) ELSE Cardinality(UserMoodsOf(u))

\* C19: when the partition visited first supplies limit items by itself,
\* ListMoods returns exactly those items with hasMore = TRUE
C19_FirstPartitionFull ==
    last.op = "ListMoods" =>
        \A first \in {FirstPartition(last.user, last.in)} :
            (first.err = NilErr /\ Len(first.moods) = last.in.Limit) =>
                /\ last.out.err = NilErr
                /\ last.out.moods = first.moods
                /\ last.out.hasMore

\* C20: when the partition visited first supplies k < limit items, the page
\* has min(limit, k + size of the second partition) items, and a page shorter
\* than the limit leaves no item of the merged sequence beyond it
C20_ContinuesIntoSecond ==
    last.op = "ListMoods" =>
        \A first \in {FirstPartition(last.user, last.in)} :
            (first.err = NilErr /\ Len(first.moods) < last.in.Limit) =>
                /\ last.out.err = NilErr
                /\ Len(last.out.moods) =
                       Min(last.in.Limit,
                           Len(first.moods) + SecondSize(last.user, last.in))
                /\ Len(last.out.moods) < last.in.Limit =>
                       Len(Beyond(last.user, last.in)) = Len(last.out.moods)

-----------------------------------------------------------------------------
(* Moods updated in place, and the order of the list *)

OrderNameInputs == {happy, Happy, sleepy}

OrderMoodInputs ==
    {[Name |-> n, Eyes |-> l.Eyes, Tongue |-> l.Tongue] : n \in OrderNameInputs, l \in Looks}

OrderLimits == {1, 2, MaxLimit}

\* listings from the start and from each mood the owners may have, both ways
OrderArgs ==
    {ListArgs(NoName, NoName, l) : l \in OrderLimits}
        \cup {ListArgs(c, NoName, l) : c \in {happy, sleepy}, l \in OrderLimits}
        \cup {ListArgs(NoName, c, l) :
                  c \in {happy, sleepy, builtinMoods[1].Name}, l \in OrderLimits}

\* the listings a caller asks for twice
OrderCalls ==
    {ListArgs(NoName, NoName, 2), ListArgs(happy, NoName, 1),
     ListArgs(NoName, sleepy, MaxLimit), ListArgs(NoName, happy, 2)}

Watcher == "t1"

Watching == calls[Watcher] # IdleCall

\* a caller lists the moods and keeps the page
ListOnce(u, a) ==
    /\ ~Watching
    /\ last' = Ret("ListMoods", u, a, ListMoods(u, a))
    /\ calls' = [calls EXCEPT ![Watcher] =
                    [pc |-> "listed", user |-> u, args |-> a, page |-> last'.out]]
    /\ StoreUnchanged

\* the caller repeats the request
ListAgain ==
    /\ Watching
    /\ last' = Ret("ListTwice", calls[Watcher].user, calls[Watcher].args,
                   [before |-> calls[Watcher].page,
                    after  |-> ListMoods(calls[Watcher].user, calls[Watcher].args)])
    /\ calls' = [calls EXCEPT ![Watcher] = IdleCall]
    /\ StoreUnchanged

\* between the two listings of a caller moods are only updated, by any owner;
\* otherwise they are created, updated and deleted
NextOrder ==
    \/ \E u \in Users, m \in OrderMoodInputs :
           /\ Watching => findMood(u, m.Name) # {}
           /\ SetMood(u, m)
    \/ \E u \in Users, n \in {happy, sleepy} : ~Watching /\ DeleteMood(u, n)
    \/ \E u \in Users, a \in OrderCalls : ListOnce(u, a)
    \/ ListAgain

SpecOrder == InitList /\ [][NextOrder]_vars

\* the listed moods, each user-defined one as its row reads now
AsStoredNow(ms) ==
    [i \in DOMAIN ms |->
        IF ms[i].UserDefined /\ \E r \in moods : r.id = ms[i].id
        THEN ScanMood(CHOOSE r \in moods : r.id = ms[i].id)
        ELSE ms[i]]

\* C21: the owner's moods are listed by ascending sequence id when ascending
\* and by descending sequence id when descending; a SetMood on an existing
\* name keeps the row's sequence id, owner and name and leaves every other
\* row as it was; and a listing repeated after such updates, from the start
\* or from a cursor, returns the same moods at the same positions, with the
\* looks they have now
C21_UpdateKeepsPosition ==
    /\ [](\A u \in Users, a \in OrderArgs :
              \A r \in {ListMoods(u, a)} :
                  \A i, j \in DOMAIN r.moods :
                      (i < j /\ r.moods[i].UserDefined /\ r.moods[j].UserDefined) =>
                          /\ IsUserMoodOf(u, r.moods[i]) /\ IsUserMoodOf(u, r.moods[j])
                          /\ IF sortAsc(a) THEN r.moods[i].id < r.moods[j].id
                             ELSE r.moods[i].id > r.moods[j].id)
    /\ [][(last'.op = "SetMood" /\ last'.out.err = NilErr
             /\ findMood(last'.user, last'.in.Name) # {}) =>
              /\ moodSeq' = moodSeq
              /\ \E old \in moods :
                     /\ old.id = last'.out.id
                     /\ old.user_id = last'.user
                     /\ moods' = (moods \ {old}) \cup
                            {[old EXCEPT !.eyes = last'.in.Eyes,
                                         !.tongue = last'.in.Tongue]}]_vars
    /\ [](last.op = "ListTwice" =>
              /\ last.out.after.err = last.out.before.err
              /\ last.out.after.hasMore = last.out.before.hasMore
              /\ last.out.after.moods = AsStoredNow(last.out.before.moods))

\* a listing taken from a mood as cursor, and again after that mood and the
\* one listed got other eyes, with the same mood at the same place
C21_Witness ==
    /\ last.op = "ListTwice" /\ last.in.After # NoName
    /\ last.out.before.err = NilErr
    /\ last.out.before.moods # <<>>
    /\ last.out.before.moods[1].UserDefined
    /\ last.out.after.moods[1].Eyes # last.out.before.moods[1].Eyes
    /\ \E g \in moodLog : \E r \in UserMoodsOf(last.user) :
           /\ EqualFold(r.name, last.in.After)
           /\ g.id = r.id /\ g.eyes # r.eyes

-----------------------------------------------------------------------------
(* Claims on walking the mood list forward *)

\* C22: for every owner and every limit from 1 on, asking for the ascending
\* pages one after the other, each from the name of the last item of the page
\* before, ends within one call per item plus one and yields the owner's
\* moods in order of creation and then the catalog, each item once; and no
\* page holds the item its cursor names
C22_ForwardWalkComplete ==
    \A u \in Users :
        \A all \in {Merged(u, TRUE)} :
            /\ \A l \in 1..MaxLimit :
                   \A w \in {ForwardWalk(u, l)} : w.ok /\ w.items = all
            /\ \A k \in DOMAIN all, l \in 1..MaxLimit :
                   \A r \in {ListMoods(u, ListArgs(all[k].Name, NoName, l))} :
                       /\ r.err = NilErr
                       /\ \A i \in DOMAIN r.moods : r.moods[i].Name # all[k].Name

\* a walk in pages of one item that went through two moods of the owner and
\* the whole catalog
C22_Witness ==
    /\ last.op = "Paginate" /\ last.in.Limit = 1
    /\ last.out.fwd.ok
    /\ Len(last.out.fwd.items) = Len(builtinMoods) + 2
    /\ last.out.fwd.items[2].UserDefined
    /\ ~last.out.fwd.items[3].UserDefined

-----------------------------------------------------------------------------
(* Two owners side by side *)

MaxOwnersConvoId == 2
MaxOwnersLineId == 2

Observer == "u1"

\* both owners call their mood happy; the observer's keeps its looks, the
\* other owner's changes them
OwnersMoodInputs(u) ==
    {[Name |-> happy, Eyes |-> l.Eyes, Tongue |-> l.Tongue] :
         l \in IF u = Observer THEN ListLooks ELSE Looks}

\* the values rand.Int returns in the calls of each owner
RandOf(u) == IF u = Observer THEN {7} ELSE {46}

OwnersConvoIDs == {convoIDPrefix \o FormatUint(rv, 36) : rv \in RandValues}

\* the lines an owner says: in a mood of the catalog or in one of their own,
\* named as GetMood returned it
OwnersLineInputs(u) == {l \in LineInputs(u) : l.MoodName = l.mood.Name}

\* everything the reads return to an owner
Observation(u) ==
    [moods  |-> ListMoods(u, ListArgs(NoName, NoName, MaxLimit)),
     back   |-> ListMoods(u, ListArgs(NoName, happy, 2)),
     mood   |-> GetMood(u, happy),
     convos |-> ListConversations(u, ListArgs(NoName, NoName, MaxOwnersConvoId)),
     convo  |-> [c \in OwnersConvoIDs |-> GetConversation(u, c)],
     line   |-> [c \in OwnersConvoIDs |-> [l \in LineIDs |-> GetLine(u, c, l)]]]

Observing == calls[Watcher] # IdleCall

\* the observer reads everything and keeps it
Observe ==
    /\ ~Observing
    /\ last' = Ret("Observe", Observer, [none |-> TRUE], Observation(Observer))
    /\ calls' = [calls EXCEPT ![Watcher] = [pc |-> "observed", seen |-> last'.out]]
    /\ StoreUnchanged

\* the observer reads everything again
ObserveAgain ==
    /\ Observing
    /\ last' = Ret("ObserveTwice", Observer, [none |-> TRUE],
                   [before |-> calls[Watcher].seen, after |-> Observation(Observer)])
    /\ calls' = [calls EXCEPT ![Watcher] = IdleCall]
    /\ StoreUnchanged

\* the owners that may write: between the two reads of the observer, the others
Writers == IF Observing THEN Users \ {Observer} ELSE Users

NextOwners ==
    \/ \E u \in Writers : \E m \in OwnersMoodInputs(u) : SetMood(u, m)
    \/ \E u \in Writers : DeleteMood(u, happy)
    \/ \E u \in Writers : NewConversation(u, "trip", RandOf(u), MaxOwnersConvoId)
    \/ \E u \in Writers, c \in OwnersConvoIDs : DeleteConversation(u, c)
    \/ \E u \in Writers, c \in OwnersConvoIDs : \E l \in OwnersLineInputs(u) :
           InsertLine(u, c, l, RandOf(u), MaxOwnersLineId)
    \/ \E u \in Writers, c \in OwnersConvoIDs, l \in LineIDs : DeleteLine(u, c, l)
    \/ Observe
    \/ ObserveAgain

ObserverConvoID == convoIDPrefix \o FormatUint(7, 36)
ObserverLineID  == lineIDPrefix \o FormatUint(7, 36)

\* the observer has said one line in a mood of their own; the other owner
\* has nothing yet
InitOwners ==
    /\ moods = {[id |-> 1, user_id |-> Observer, name |-> happy,
                 eyes |-> "^^", tongue |-> "  "]}
    /\ moodSeq = 1
    /\ moodLog = {[id |-> 1, user_id |-> Observer, name |-> happy, eyes |-> "^^"]}
    /\ convos = {[id |-> 1, public_id |-> ObserverConvoID, user_id |-> Observer,
                  heading |-> "trip"]}
    /\ convoSeq = 1
    /\ lines = {[id |-> 1, public_id |-> ObserverLineID, mood_name |-> happy,
                 mood_id |-> [Valid |-> TRUE, Int64 |-> 1], conversation_id |-> 1]}
    /\ lineSeq = 1
    /\ convoFK = "cascade"
    /\ calls = [t \in Threads |-> IdleCall]
    /\ last = Ret("InsertLine", Observer,
                  [convoID |-> ObserverConvoID,
                   line |-> [MoodName |-> happy,
                             mood |-> [Name |-> happy, UserDefined |-> TRUE, id |-> 1]]],
                  [err |-> NilErr, ID |-> ObserverLineID])

SpecOwners == InitOwners /\ [][NextOwners]_vars

\* the rows that belong to an owner: their moods, their conversations and the
\* lines of their conversations
Owned(u) ==
    [moods  |-> {r \in moods : r.user_id = u},
     convos |-> {c \in convos : c.user_id = u},
     lines  |-> {l \in lines : \E c \in convos : c.id = l.conversation_id /\ c.user_id = u}]

OwnsLine(u, publicID) == \E l \in Owned(u).lines : l.public_id = publicID

\* C23: an operation of one owner leaves the rows of every other owner as
\* they were; every mood, conversation and line a read returns to an owner is
\* a row of that owner or a catalog mood; and what the reads return to an
\* owner is the same before and after any operations of the other owner
C23_OwnerIsolation ==
    /\ [][\A u \in Users : last'.user # u => Owned(u)' = Owned(u)]_vars
    /\ [](\A u \in Users : \A o \in {Observation(u)} :
              /\ \A i \in DOMAIN o.moods.moods :
                     o.moods.moods[i].UserDefined => IsUserMoodOf(u, o.moods.moods[i])
              /\ \A i \in DOMAIN o.back.moods :
                     o.back.moods[i].UserDefined => IsUserMoodOf(u, o.back.moods[i])
              /\ (o.mood # NilMood /\ o.mood.UserDefined) => IsUserMoodOf(u, o.mood)
              /\ \A i \in DOMAIN o.convos.convos :
                     \E c \in Owned(u).convos : ScanConvo(c) = o.convos.convos[i]
              /\ \A c \in OwnersConvoIDs :
                     /\ o.convo[c].convo # NilConvo =>
                            /\ \E k \in Owned(u).convos : k.public_id = c
                            /\ \A i \in DOMAIN o.convo[c].convo.Lines :
                                   OwnsLine(u, o.convo[c].convo.Lines[i].ID)
                     /\ \A l \in LineIDs :
                            o.line[c][l].line # NilLine => OwnsLine(u, l)
              /\ \A l \in Owned(u).lines :
                     l.mood_id.Valid =>
                         \E r \in Owned(u).moods : r.id = l.mood_id.Int64)
    /\ [](last.op = "ObserveTwice" => last.out.after = last.out.before)

\* the observer read a mood, a conversation and a line of their own twice,
\* and in between the other owner gained a mood, a conversation and a line
C23_Witness ==
    /\ last.op = "ObserveTwice"
    /\ last.out.before.mood # NilMood /\ last.out.before.mood.UserDefined
    /\ \E c \in OwnersConvoIDs :
           /\ last.out.before.convo[c].convo # NilConvo
           /\ last.out.before.convo[c].convo.Lines # <<>>
    /\ \E u \in Users \ {Observer} :
           /\ Owned(u).moods # {} /\ Owned(u).lines # {}
           /\ \A r \in Owned(u).moods : r.id > last.out.before.mood.id

-----------------------------------------------------------------------------
(* Claims on the names of the catalog in other spellings *)

\* the catalog entries after the one a name spells, ignoring case
AfterCatalogEntry(name) ==
    LET at == CHOOSE i \in DOMAIN builtinMoods : EqualFold(builtinMoods[i].Name, name)
    IN  SubSeq(builtinMoods, at + 1, Len(builtinMoods))

\* C24: GetMood returns a catalog mood for a name exactly when SetMood and
\* DeleteMood reject that name as built-in, and ListMoods then takes the name
\* as a cursor at that catalog entry
C24_BuiltinRecognition ==
    last.op = "GetMood" =>
        /\ (last.out.mood # NilMood /\ ~last.out.mood.UserDefined)
               <=> isBuiltin(last.in.name)
        /\ isBuiltin(last.in.name) =>
               /\ EqualFold(last.out.mood.Name, last.in.name)
               /\ \A r \in {ListMoods(last.user, ListArgs(last.in.name, NoName, 1))} :
                      /\ r.err = NilErr
                      /\ \A b \in {AfterCatalogEntry(last.in.name)} :
                             r.moods = SubSeq(b, 1, Min(1, Len(b)))

-----------------------------------------------------------------------------
(* DeleteMood next to the other calls of the same owner *)

MaxConflictLineId == 3

Owner == "u1"

Deleter == "t1"

\* DeleteMood up to its delete statement: it returns at once unless the
\* statement is rejected for a line that references the mood
BeginDeleteMood(t, userID, name) ==
    /\ calls[t].pc = "idle"
    /\ IF isBuiltin(name)
       THEN /\ last' = Ret("DeleteMood", userID, [name |-> name],
                           [err |-> errBuiltinMood, ids |-> <<>>])
            /\ calls' = [calls EXCEPT ![t] = IdleCall]
            /\ UNCHANGED moods
       ELSE LET match == deleteMoodMatch(userID, name)
            IN  IF MoodReferenced(match)
                THEN /\ calls' = [calls EXCEPT ![t] =
                            [pc |-> "DeleteMood", userID |-> userID, name |-> name,
                             blocking |-> {l.public_id : l \in Referencing(match)}]]
                     /\ UNCHANGED <<moods, last>>
                ELSE /\ moods' = moods \ match
                     /\ last' = Ret("DeleteMood", userID, [name |-> name],
                                    [err |-> doDelete(dbOK, Cardinality(match)),
                                     ids |-> <<>>])
                     /\ calls' = [calls EXCEPT ![t] = IdleCall]
    /\ UNCHANGED <<moodSeq, moodLog, convos, convoSeq, lines, lineSeq, convoFK>>

\* DeleteMood after the rejection: the lookup of the lines, then the conflict
FinishDeleteMood(t) ==
    /\ calls[t].pc = "DeleteMood"
    /\ last' = Ret("DeleteMood", calls[t].userID, [name |-> calls[t].name],
                   [err |-> errConflict,
                    ids |-> findMoodLines(calls[t].userID, calls[t].name)])
    /\ calls' = [calls EXCEPT ![t] =
                    [pc |-> "idle", op |-> "DeleteMood", userID |-> calls[t].userID,
                     name |-> calls[t].name, blocking |-> calls[t].blocking,
                     ids |-> last'.out.ids]]
    /\ StoreUnchanged

ConflictLineIDs == LineIDs \cup {ObserverLineID}

\* the owner has said one line in a mood of their own
InitConflict == InitOwners

NextConflict ==
    \/ BeginDeleteMood(Deleter, Owner, happy)
    \/ FinishDeleteMood(Deleter)
    \/ \E l \in OwnersLineInputs(Owner) :
           InsertLine(Owner, ObserverConvoID, l, RandValues, MaxConflictLineId)
    \/ \E l \in ConflictLineIDs : DeleteLine(Owner, ObserverConvoID, l)
    \/ DeleteConversation(Owner, ObserverConvoID)
    \/ NewConversation(Owner, "trip", OneRandValue, MaxOwnersConvoId)

SpecConflict == InitConflict /\ [][NextConflict]_vars

ListedIds(ids) == {ids[i] : i \in DOMAIN ids}

\* C25 as stated: a DeleteMood that returns a conflict lists at least one
\* line, and only lines that referenced the mood when the delete statement
\* was rejected
C25_ListAsOfRejection ==
    (last.op = "DeleteMood" /\ last.out.err = errConflict
         /\ calls[Deleter].pc = "idle" /\ calls[Deleter] # IdleCall) =>
        /\ last.out.ids # <<>>
        /\ ListedIds(last.out.ids) \subseteq calls[Deleter].blocking

\* C25 amended: a DeleteMood whose delete statement is rejected removes no
\* mood row and no line, at least one line referenced the mood at the
\* rejection, and the conflict it returns lists the lines that reference a
\* mood of the owner under the given name when the lookup runs, whatever
\* they were at the rejection
C25_ListAsOfLookup ==
    /\ [][(calls'[Deleter].pc = "DeleteMood" /\ calls[Deleter].pc = "idle") =>
              /\ moods' = moods /\ lines' = lines
              /\ calls'[Deleter].blocking # {}
              /\ calls'[Deleter].blocking =
                     {l.public_id : l \in Referencing(RowsNamed(moods, Owner, happy))}]_vars
    /\ [][(calls[Deleter].pc = "DeleteMood" /\ calls'[Deleter].pc = "idle") =>
              /\ moods' = moods /\ lines' = lines /\ convos' = convos
              /\ last'.out.err = errConflict
              /\ Len(last'.out.ids) = Cardinality(ListedIds(last'.out.ids))
              /\ ListedIds(last'.out.ids) =
                     {l.public_id : l \in
                         {k \in Referencing({r \in moods : r.user_id = Owner}) :
                              k.mood_name = calls[Deleter].name}}]_vars

\* a conflict whose list is empty: the line that blocked the delete was
\* deleted before the lookup
C25_Witness ==
    /\ last.op = "DeleteMood" /\ last.out.err = errConflict
    /\ calls[Deleter].pc = "idle" /\ calls[Deleter] # IdleCall
    /\ calls[Deleter].blocking # {}
    /\ last.out.ids = <<>>

====
